---- MODULE Spec2Model ----
(***************************************************************************)
(* Model of app.py: a Streamlit chat page that forwards each user input to *)
(* a text-generation endpoint and logs each successful exchange as one row *)
(* of a remote spreadsheet.                                                *)
(*                                                                         *)
(* One session is modelled.  The script runs top to bottom on every input; *)
(* pc is the position of the script, and each remote call is one step      *)
(* whose outcome (returns / raises) is chosen by the environment.          *)
(***************************************************************************)
EXTENDS Naturals, Sequences, FiniteSets

VARIABLES
    secrets,        \* keys present in st.secrets
    pc,             \* position of the script
    gs_client,      \* "unset" | "None" | "client"
    gemini_model,   \* "unset" | "None" | "model"
    chat_history,   \* st.session_state.chat_history
    prompt,         \* the input of the current run
    bot_response,   \* response.text of the current run
    pending,        \* generate_content requests sent and not yet answered
    log_args,       \* <<user_message, bot_response>> of log_chat_to_sheet
    sheet,          \* spreadsheet whose sheet1 log_chat_to_sheet holds
    rows,           \* rows of sheet1 of every remote spreadsheet
    calls,          \* calls made by the current run, in order
    screen,         \* st.error messages of the current run
    displayed,      \* chat messages rendered by the current run
    turns           \* number of inputs submitted so far

vars == <<secrets, pc, gs_client, gemini_model, chat_history, prompt,
          bot_response, pending, log_args, sheet, rows, calls, screen,
          displayed, turns>>

----------------------------------------------------------------------------
(* Bounds of the model *)

MaxTurns == 3

Inputs == {"q1", "q2"}

Replies == {"r1", "r2"}

----------------------------------------------------------------------------
(* Configuration *)

AllSecrets == {"GEMINI_API_KEY", "SERVICE_ACCOUNT_JSON", "SHEET_ID", "SHEET_NAME"}

(* Variant: SHEET_ID read with a default instead of a subscript. *)
RequiredSecretsNoSheetId == {"GEMINI_API_KEY", "SERVICE_ACCOUNT_JSON"}

RequiredSecrets == {"GEMINI_API_KEY", "SERVICE_ACCOUNT_JSON", "SHEET_ID"}

SHEET_ID == "id"

SHEET_NAME == IF "SHEET_NAME" \in secrets THEN "named" ELSE "ChatLogs"

Spreadsheets == {"id", "named", "ChatLogs"}

SYSTEM_PROMPT == "You are Dr. Huberman AI..."

None == "None"

Message(role, content) == [role |-> role, content |-> content]

FullPrompt(p) == <<SYSTEM_PROMPT, "\n\nUser: ", p, "\nAssistant:">>

Now == turns

Row(timestamp, user_message, response) == <<timestamp, user_message, response>>

Count(s, x) == Cardinality({i \in 1..Len(s) : s[i] = x})

----------------------------------------------------------------------------
Init ==
    /\ secrets \in SUBSET AllSecrets
    /\ pc = "LoadSecrets"
    /\ gs_client = "unset"
    /\ gemini_model = "unset"
    /\ chat_history = <<>>
    /\ prompt = None
    /\ bot_response = None
    /\ pending = <<>>
    /\ log_args = <<>>
    /\ sheet = None
    /\ rows = [s \in Spreadsheets |-> <<>>]
    /\ calls = <<>>
    /\ screen = {}
    /\ displayed = <<>>
    /\ turns = 0

(* Lines 18-29: read the secrets; a missing required key stops the script. *)
LoadSecrets ==
    /\ pc = "LoadSecrets"
    /\ IF RequiredSecrets \subseteq secrets
          THEN /\ pc' = "InitBackends"
               /\ screen' = screen
          ELSE /\ pc' = "Halted"
               /\ screen' = {"Missing secret"}
    /\ UNCHANGED <<secrets, gs_client, gemini_model, chat_history, prompt,
                   bot_response, pending, log_args, sheet, rows, calls,
                   displayed, turns>>

(* Lines 38-54, 84-93, 110-115: build both clients (each is None when its  *)
(* setup raises) and create the empty chat history.                        *)
InitBackends ==
    /\ pc = "InitBackends"
    /\ \E gs \in {"client", None}, gm \in {"model", None} :
          /\ gs_client' = gs
          /\ gemini_model' = gm
          /\ screen' = (IF gs = None THEN {"Failed to authorize Google Sheets"} ELSE {})
                       \cup (IF gm = None THEN {"Error setting up Gemini model"} ELSE {})
    /\ chat_history' = <<>>
    /\ pc' = "Idle"
    /\ UNCHANGED <<secrets, prompt, bot_response, pending, log_args, sheet,
                   rows, calls, displayed, turns>>

(* Lines 122-130: the next input arrives.  With a client missing the run   *)
(* reports it and stops; otherwise the user message is stored and shown.   *)
ChatInputBody(p) ==
    /\ prompt' = p
    /\ turns' = turns + 1
    /\ calls' = <<>>
    /\ IF gemini_model = None \/ gs_client = None
          THEN /\ screen' = {"Backend services not initialized"}
               /\ displayed' = chat_history
               /\ chat_history' = chat_history
               /\ pc' = "Idle"
          ELSE /\ screen' = {}
               /\ chat_history' = Append(chat_history, Message("user", p))
               /\ displayed' = Append(chat_history, Message("user", p))
               /\ pc' = "Generate"
    /\ UNCHANGED <<secrets, gs_client, gemini_model, bot_response, pending,
                   log_args, sheet, rows>>

(* Variant: an input is taken while a generate call is still in flight. *)
ChatInputReentrant(p) ==
    /\ pc \in {"Idle", "Generating"}
    /\ turns < MaxTurns
    /\ ChatInputBody(p)

(* Line 122: the script handles one input per run, from the top. *)
ChatInput(p) ==
    /\ pc = "Idle"
    /\ turns < MaxTurns
    /\ ChatInputBody(p)

(* Lines 135-136: send the flattened prompt to the generation endpoint. *)
CallGenerate ==
    /\ pc = "Generate"
    /\ pending' = Append(pending, FullPrompt(prompt))
    /\ calls' = Append(calls, "generate_content")
    /\ pc' = "Generating"
    /\ UNCHANGED <<secrets, gs_client, gemini_model, chat_history, prompt,
                   bot_response, log_args, sheet, rows, screen, displayed, turns>>

(* Variant: the two strings passed in the wrong order. *)
LogArgsSwapped(p, r) == <<r, p>>

(* Line 143: the arguments log_chat_to_sheet is called with. *)
LogArgs(p, r) == <<p, r>>

(* Lines 136-143 and 56-59: the call returns text; show and store the      *)
(* assistant message, then enter log_chat_to_sheet.                        *)
GenerateOk(text) ==
    /\ pc = "Generating"
    /\ pending # <<>>
    /\ pending' = Tail(pending)
    /\ bot_response' = text
    /\ displayed' = Append(displayed, Message("assistant", text))
    /\ chat_history' = Append(chat_history, Message("assistant", text))
    /\ log_args' = LogArgs(prompt, text)
    /\ calls' = Append(calls, "log_chat_to_sheet")
    /\ sheet' = None
    /\ pc' = IF gs_client = None THEN "Idle" ELSE "OpenByKey"
    /\ UNCHANGED <<secrets, gs_client, gemini_model, prompt, rows, screen, turns>>

(* Variant: the error text is stored as an assistant message. *)
GenerateFailsWithReply(why) ==
    /\ pc = "Generating"
    /\ pending # <<>>
    /\ pending' = Tail(pending)
    /\ screen' = screen \cup {why}
    /\ chat_history' = Append(chat_history, Message("assistant", why))
    /\ pc' = "Idle"
    /\ UNCHANGED <<secrets, gs_client, gemini_model, prompt, bot_response,
                   log_args, sheet, rows, calls, displayed, turns>>

(* Lines 136-137 and 145-146: generate_content raises, or response.text    *)
(* raises because the response has no text; the error is shown.            *)
GenerateFails(why) ==
    /\ pc = "Generating"
    /\ pending # <<>>
    /\ pending' = Tail(pending)
    /\ screen' = screen \cup {why}
    /\ pc' = "Idle"
    /\ UNCHANGED <<secrets, gs_client, gemini_model, chat_history, prompt,
                   bot_response, log_args, sheet, rows, calls, displayed, turns>>

GenerateRaises == GenerateFails("Error generating response from Gemini: raised")

GenerateNoText == GenerateFails("Error generating response from Gemini: no text")

(* Variant: the lookup by name runs even after the lookup by ID succeeded. *)
OpenByKeyOkThenByName ==
    /\ pc = "OpenByKey"
    /\ calls' = Append(calls, "open_by_key")
    /\ sheet' = SHEET_ID
    /\ pc' = "OpenByName"
    /\ UNCHANGED <<secrets, gs_client, gemini_model, chat_history, prompt,
                   bot_response, pending, log_args, rows, screen, displayed, turns>>

(* Line 63: open_by_key(SHEET_ID).sheet1 succeeds. *)
OpenByKeyOk ==
    /\ pc = "OpenByKey"
    /\ calls' = Append(calls, "open_by_key")
    /\ sheet' = SHEET_ID
    /\ pc' = "AppendRow"
    /\ UNCHANGED <<secrets, gs_client, gemini_model, chat_history, prompt,
                   bot_response, pending, log_args, rows, screen, displayed, turns>>

(* Lines 63-66: open_by_key(SHEET_ID).sheet1 raises; fall back to the name. *)
OpenByKeyFails ==
    /\ pc = "OpenByKey"
    /\ calls' = Append(calls, "open_by_key")
    /\ screen' = screen \cup {"Error opening sheet by ID. Trying by name..."}
    /\ pc' = "OpenByName"
    /\ UNCHANGED <<secrets, gs_client, gemini_model, chat_history, prompt,
                   bot_response, pending, log_args, sheet, rows, displayed, turns>>

(* Line 69: open(SHEET_NAME).sheet1 succeeds. *)
OpenByNameOk ==
    /\ pc = "OpenByName"
    /\ calls' = Append(calls, "open")
    /\ sheet' = SHEET_NAME
    /\ pc' = "AppendRow"
    /\ UNCHANGED <<secrets, gs_client, gemini_model, chat_history, prompt,
                   bot_response, pending, log_args, rows, screen, displayed, turns>>

(* Variant: the exception of the lookup by name is not caught. *)
OpenByNameEscapes(why) ==
    /\ pc = "OpenByName"
    /\ calls' = Append(calls, "open")
    /\ screen' = screen \cup {why}
    /\ pc' = "Crashed"
    /\ UNCHANGED <<secrets, gs_client, gemini_model, chat_history, prompt,
                   bot_response, pending, log_args, sheet, rows, displayed, turns>>

(* Lines 69-75: open(SHEET_NAME).sheet1 raises; report it and return. *)
OpenByNameFails(why) ==
    /\ pc = "OpenByName"
    /\ calls' = Append(calls, "open")
    /\ screen' = screen \cup {why}
    /\ pc' = "Idle"
    /\ UNCHANGED <<secrets, gs_client, gemini_model, chat_history, prompt,
                   bot_response, pending, log_args, sheet, rows, displayed, turns>>

OpenByNameNotFound == OpenByNameFails("Error: Spreadsheet not found")

OpenByNameRaises == OpenByNameFails("Error opening sheet by name")

(* Lines 78-80: append_row succeeds; the row lands at the end of sheet1. *)
AppendRowOk ==
    /\ pc = "AppendRow"
    /\ calls' = Append(calls, "append_row")
    /\ rows' = [rows EXCEPT ![sheet] = Append(@, Row(Now, log_args[1], log_args[2]))]
    /\ pc' = "Idle"
    /\ UNCHANGED <<secrets, gs_client, gemini_model, chat_history, prompt,
                   bot_response, pending, log_args, sheet, screen, displayed, turns>>

(* Variant: a failed append removes the assistant message again. *)
AppendRowRaisesRollback ==
    /\ pc = "AppendRow"
    /\ calls' = Append(calls, "append_row")
    /\ screen' = screen \cup {"Error appending row to sheet"}
    /\ chat_history' = SubSeq(chat_history, 1, Len(chat_history) - 1)
    /\ pc' = "Idle"
    /\ UNCHANGED <<secrets, gs_client, gemini_model, prompt, bot_response,
                   pending, log_args, sheet, rows, displayed, turns>>

(* Lines 78-82: append_row raises; report it. *)
AppendRowRaises ==
    /\ pc = "AppendRow"
    /\ calls' = Append(calls, "append_row")
    /\ screen' = screen \cup {"Error appending row to sheet"}
    /\ pc' = "Idle"
    /\ UNCHANGED <<secrets, gs_client, gemini_model, chat_history, prompt,
                   bot_response, pending, log_args, sheet, rows, displayed, turns>>

Step ==
    \/ CallGenerate
    \/ \E text \in Replies : GenerateOk(text)
    \/ GenerateRaises
    \/ GenerateNoText
    \/ OpenByKeyOk
    \/ OpenByKeyFails
    \/ OpenByNameOk
    \/ OpenByNameNotFound
    \/ OpenByNameRaises
    \/ AppendRowOk
    \/ AppendRowRaises

Next ==
    \/ LoadSecrets
    \/ InitBackends
    \/ \E p \in Inputs : ChatInput(p)
    \/ Step

Spec == Init /\ [][Next]_vars

(* The script runs on once started, and every remote call returns or raises. *)
LiveSpec == Spec /\ WF_vars(Step)

----------------------------------------------------------------------------
(* Vocabulary of the properties *)

Last(s) == s[Len(s)]

IsPrefix(s, t) == Len(s) <= Len(t) /\ SubSeq(t, 1, Len(s)) = s

GenerationErrors == {"Error generating response from Gemini: raised",
                     "Error generating response from Gemini: no text"}

OpenByIdError == "Error opening sheet by ID. Trying by name..."

OpenByNameErrors == {"Error: Spreadsheet not found", "Error opening sheet by name"}

AppendError == "Error appending row to sheet"

LoggingErrors == {OpenByIdError, AppendError} \cup OpenByNameErrors

Busy == {"Generate", "Generating", "OpenByKey", "OpenByName", "AppendRow"}

InLogging == {"OpenByKey", "OpenByName", "AppendRow"}

(* A step that submits an input. *)
Submits == turns' = turns + 1

(* A step in which the pending generate call ends, with text or in failure. *)
GenerationSucceeds == pending # <<>> /\ pending' = <<>> /\ screen' = screen

GenerationFails == pending # <<>> /\ pending' = <<>> /\ screen' # screen

----------------------------------------------------------------------------
(* C1: every submitted input appends exactly one user Message with that    *)
(* input as content, whatever the state of the two clients, and a generate *)
(* call is in flight only after that Message is in the store.              *)
C1_UserMessageBeforeGenerate ==
    /\ [][Submits => chat_history' = Append(chat_history, Message("user", prompt'))]_vars
    /\ [](pending # <<>> =>
            /\ chat_history # <<>>
            /\ Last(chat_history) = Message("user", prompt))

(* C2: when the generate call succeeds, one assistant Message is appended, *)
(* log_chat_to_sheet is entered once with the input and the reply exactly  *)
(* as stored and displayed, and a row that is written carries those two    *)
(* strings.                                                                *)
C2_SuccessStoresAndLogsSameStrings ==
    /\ [][GenerationSucceeds =>
            /\ chat_history' = Append(chat_history, Message("assistant", bot_response'))
            /\ displayed' = chat_history'
            /\ calls' = Append(calls, "log_chat_to_sheet")
            /\ Len(log_args') = 2
            /\ chat_history[Len(chat_history)] = Message("user", log_args'[1])
            /\ Last(chat_history') = Message("assistant", log_args'[2])]_vars
    /\ [][rows' # rows =>
            \E s \in Spreadsheets :
               /\ rows' = [rows EXCEPT ![s] = Append(@, <<turns, prompt, bot_response>>)]
               /\ chat_history[Len(chat_history) - 1] = Message("user", prompt)
               /\ Last(chat_history) = Message("assistant", bot_response)]_vars
    /\ [](/\ Count(calls, "log_chat_to_sheet") <= 1
          /\ Count(calls, "append_row") <= 1
          /\ ("append_row" \in {calls[i] : i \in 1..Len(calls)}
                 => Count(calls, "log_chat_to_sheet") = 1))

C2_Witness ==
    /\ pc = "Idle"
    /\ calls = <<"generate_content", "log_chat_to_sheet", "open_by_key", "append_row">>
    /\ screen = {}
    /\ turns = 2
    /\ Last(rows[SHEET_ID]) = <<2, prompt, bot_response>>
    /\ Last(chat_history) = Message("assistant", bot_response)

(* C3: when the generate call fails (it raises, or the response has no     *)
(* text), no assistant Message is appended and log_chat_to_sheet is not    *)
(* entered: the store is the store before the turn plus the user Message,  *)
(* and no sheet changes.                                                   *)
C3_FailureAppendsNothingLogsNothing ==
    /\ [][GenerationFails =>
            /\ chat_history' = chat_history
            /\ rows' = rows
            /\ calls' = calls
            /\ pc' = "Idle"]_vars
    /\ [](screen \cap GenerationErrors # {} =>
            /\ pc = "Idle"
            /\ calls = <<"generate_content">>
            /\ chat_history = displayed
            /\ Last(chat_history) = Message("user", prompt))

C3_Witness ==
    /\ pc = "Idle"
    /\ screen \cap GenerationErrors # {}
    /\ Len(chat_history) = 3
    /\ chat_history[2].role = "assistant"
    /\ chat_history[3].role = "user"

(* C4: sheet resolution is a sequential try.  After open-by-ID succeeds,   *)
(* open-by-name is not attempted; after it fails, open-by-name is          *)
(* attempted once; the row goes to sheet1 of the spreadsheet whose open    *)
(* succeeded; when both fail no append is attempted.                       *)
C4_SequentialResolution ==
    LET called(c) == c \in {calls[i] : i \in 1..Len(calls)}
        idFailed == OpenByIdError \in screen
        nameFailed == screen \cap OpenByNameErrors # {}
    IN  /\ Count(calls, "open_by_key") <= 1
        /\ Count(calls, "open") <= 1
        /\ called("open") => called("open_by_key") /\ idFailed
        /\ (called("open_by_key") /\ ~idFailed) => sheet = "id" /\ ~called("open")
        /\ (idFailed /\ pc = "Idle") => Count(calls, "open") = 1
        /\ (idFailed /\ pc = "OpenByName") => ~called("open")
        /\ nameFailed => ~called("append_row") /\ pc = "Idle"
        /\ pc = "AppendRow" =>
              sheet = (IF idFailed
                          THEN (IF "SHEET_NAME" \in secrets THEN "named" ELSE "ChatLogs")
                          ELSE "id")
        /\ (called("append_row") /\ AppendError \notin screen) =>
              /\ sheet = (IF idFailed
                             THEN (IF "SHEET_NAME" \in secrets THEN "named" ELSE "ChatLogs")
                             ELSE "id")
              /\ rows[sheet] # <<>>
              /\ Last(rows[sheet]) = <<turns, prompt, bot_response>>

C4_Witness ==
    /\ pc = "Idle"
    /\ calls = <<"generate_content", "log_chat_to_sheet", "open_by_key", "open", "append_row">>
    /\ screen = {OpenByIdError}
    /\ "SHEET_NAME" \notin secrets
    /\ rows["id"] = <<>>
    /\ rows["ChatLogs"] = <<<<1, prompt, bot_response>>>>

(* C5: a logging failure (open-by-ID, open-by-name or append_row raising)  *)
(* leaves the store as it was once the assistant Message was appended.     *)
C5_LoggingFailureKeepsStore ==
    /\ [][(pc \in InLogging) => (chat_history' = chat_history /\ displayed' = displayed)]_vars
    /\ [](screen \cap LoggingErrors # {} =>
            /\ Len(chat_history) >= 2
            /\ Last(chat_history) = Message("assistant", bot_response)
            /\ chat_history[Len(chat_history) - 1] = Message("user", prompt)
            /\ displayed = chat_history)

C5_Witness ==
    /\ pc = "Idle"
    /\ AppendError \in screen
    /\ OpenByIdError \in screen
    /\ Len(chat_history) = 4
    /\ Last(chat_history) = Message("assistant", bot_response)

(* C6: with the spreadsheet client unauthorised (None) and a working       *)
(* generation client, a submitted input still appends the user Message and *)
(* goes on to the generate call.                                           *)
C6_SheetsFailureNeverBlocksChat ==
    [][(Submits /\ gs_client = None /\ gemini_model = "model") =>
          /\ chat_history' = Append(chat_history, Message("user", prompt'))
          /\ pc' = "Generate"]_vars

(* C7: with GEMINI_API_KEY, SERVICE_ACCOUNT_JSON or SHEET_ID missing the   *)
(* script reports the error and stops before any client is built or input *)
(* accepted; a missing SHEET_NAME alone does not stop it and the name      *)
(* defaults to ChatLogs.                                                   *)
C7_MissingSecretHalts ==
    LET complete == {"GEMINI_API_KEY", "SERVICE_ACCOUNT_JSON", "SHEET_ID"} \subseteq secrets
    IN  /\ (~complete /\ pc # "LoadSecrets") =>
              /\ pc = "Halted"
              /\ screen = {"Missing secret"}
              /\ gs_client = "unset"
              /\ gemini_model = "unset"
              /\ turns = 0
              /\ chat_history = <<>>
              /\ calls = <<>>
              /\ pending = <<>>
              /\ \A s \in Spreadsheets : rows[s] = <<>>
        /\ complete => pc # "Halted" /\ "Missing secret" \notin screen
        /\ (complete /\ "SHEET_NAME" \notin secrets) => SHEET_NAME = "ChatLogs"

C7_Witness ==
    /\ pc = "Halted"
    /\ secrets = {"GEMINI_API_KEY", "SERVICE_ACCOUNT_JSON", "SHEET_NAME"}

(* C8: at most one generate request is in flight: an input is accepted     *)
(* only in Idle and no second generate call is issued before the run is    *)
(* back in Idle.                                                           *)
C8_OneGenerateInFlight ==
    /\ [][Submits => pc = "Idle"]_vars
    /\ [](/\ Len(pending) <= 1
          /\ (pending # <<>>) <=> (pc = "Generating")
          /\ Count(calls, "generate_content") <= 1)

C8_Witness ==
    /\ pc = "Generating"
    /\ Len(pending) = 1
    /\ turns = 3

(* C9: once startup has succeeded every turn ends back in Idle, whatever   *)
(* the remote calls do, no error escapes, and Idle accepts the next input. *)
C9_EveryTurnReturnsToIdle ==
    /\ [](pc \in Busy => <>(pc = "Idle"))
    /\ [](pc \in {"LoadSecrets", "InitBackends", "Halted", "Idle"} \cup Busy)
    /\ []((pc = "Idle" /\ turns < MaxTurns) => ENABLED (\E p \in Inputs : ChatInput(p)))

C9_Witness ==
    /\ pc = "Idle"
    /\ turns = 2
    /\ screen = {OpenByIdError, "Error opening sheet by name"}

(* C10: the store is append-only: every step leaves the old store a prefix *)
(* of the new one, every submitted input adds its user Message, and the    *)
(* only other change of a turn is one assistant Message right after it.    *)
C10_AppendOnlyOneOrTwoPerTurn ==
    [][/\ IsPrefix(chat_history, chat_history')
       /\ Submits =>
             /\ Len(chat_history') = Len(chat_history) + 1
             /\ Last(chat_history') = Message("user", prompt')
       /\ (~Submits /\ chat_history' # chat_history) =>
             /\ Len(chat_history') = Len(chat_history) + 1
             /\ Last(chat_history').role = "assistant"
             /\ Last(chat_history) = Message("user", prompt)
             /\ calls = <<"generate_content">>]_vars

====
